---- MODULE Spec2Model ----
(***************************************************************************)
(* A model of the PSI protocol engine of src/src/psi.cpp: PSIParams,       *)
(* PSIReceiver::encrypt_inputs, PSISender::compute_matches and             *)
(* PSIReceiver::decrypt_matches.                                           *)
(*                                                                         *)
(* Vectors are sequences; the element the source calls v[i] is v[i + 1].   *)
(* A batched plaintext is the sequence of its slot_count slot values, a    *)
(* ciphertext is a record holding the slot values it decrypts to, the set  *)
(* of Receiver ciphertexts it was computed from and its multiplicative     *)
(* depth.  The homomorphic operations act slot-wise modulo plain_modulus.  *)
(***************************************************************************)
EXTENDS Integers, Sequences, FiniteSets, TLC

(***************************************************************************)
(* Bounds of the model.                                                    *)
(***************************************************************************)
MaxReceiverSize == 2
MaxInput == 6
MaxSeed == 1
MaxExtraCiphertexts == 1
MaxInputBits == 17
MaxCiphertexts == 3

(***************************************************************************)
(* Program constants.                                                      *)
(***************************************************************************)
plain_modulus == 65537
hash_functions == 3
sender_bucket_capacity == 10
\* 2^16 < plain_modulus < 2^17: floor(log2(plain_modulus))
plain_modulus_log == 16

VARIABLES
    receiver_size,   \* PSIParams::receiver_size
    sender_size,     \* PSIParams::sender_size
    input_bits,      \* PSIParams::input_bits
    slot_count,      \* BatchEncoder::slot_count() of params.context
    seeds,           \* PSIParams::seeds
    pc,              \* position of the round
    original,        \* the vector the Receiver's caller passed to encrypt_inputs
    inputs,          \* the same vector after encrypt_inputs (rewritten in place)
    r_buckets,       \* encrypt_inputs: the cuckoo table
    r_ok,            \* encrypt_inputs: the value cuckoo_hash returned
    r_ciphertexts,   \* the value encrypt_inputs returned
    sent,            \* the vector compute_matches was given as receiver_inputs
    s_inputs,        \* the vector compute_matches was given as inputs
    s_buckets,       \* compute_matches: the complete-hash table
    s_ok,            \* compute_matches: the value complete_hash returned
    ladder,          \* compute_matches: the operation that computed powers[j]
    s_result,        \* the value compute_matches returned
    decoded,         \* decrypt_matches: the decoded slots of every ciphertext
    matches,         \* the value decrypt_matches returned
    failed,          \* the call whose assertion aborted the process, "" if none
    probe            \* the last two encode_bucket_element calls and their results

vars == <<receiver_size, sender_size, input_bits, slot_count, seeds, pc,
          original, inputs, r_buckets, r_ok, r_ciphertexts, sent, s_inputs,
          s_buckets, s_ok, ladder, s_result, decoded, matches, failed, probe>>

(***************************************************************************)
(* Integer helpers.                                                        *)
(***************************************************************************)
Pow2(n) == 2 ^ n

ShiftRight(v, k) == v \div Pow2(k)

ShiftLeft(v, k) == v * Pow2(k)

RECURSIVE BitOr(_, _)
BitOr(a, b) ==
    IF a = 0 THEN b
    ELSE IF b = 0 THEN a
    ELSE 2 * BitOr(a \div 2, b \div 2)
         + (IF (a % 2 = 1) \/ (b % 2 = 1) THEN 1 ELSE 0)

RECURSIVE BitAnd(_, _)
BitAnd(a, b) ==
    IF a = 0 \/ b = 0 THEN 0
    ELSE 2 * BitAnd(a \div 2, b \div 2)
         + (IF (a % 2 = 1) /\ (b % 2 = 1) THEN 1 ELSE 0)

RECURSIVE BitXor(_, _)
BitXor(a, b) ==
    IF a = 0 THEN b
    ELSE IF b = 0 THEN a
    ELSE 2 * BitXor(a \div 2, b \div 2)
         + (IF (a % 2) # (b % 2) THEN 1 ELSE 0)

\* a * b mod m for a, b < 2^17, without a product above 2^31
MulMod(a, b, m) ==
    LET bh == b \div 256
        bl == b % 256
    IN  ((((a * bh) % m) * 256) + (a * bl)) % m

AddMod(a, b, m) == (a + b) % m

SubMod(a, b, m) == (a + m - (b % m)) % m

\* the ascending sequence of a finite set of numbers
RECURSIVE SortedSeq(_)
SortedSeq(S) ==
    IF S = {} THEN <<>>
    ELSE LET x == CHOOSE y \in S : \A z \in S : y <= z
         IN  <<x>> \o SortedSeq(S \ {x})

Range(s) == {s[i] : i \in 1..Len(s)}

\* the sequence <<F(1), ..., F(n)>>, every element computed once
Tabulate(F(_), n) == [k \in 1..n |-> F(k)] \o <<>>

(***************************************************************************)
(* PSIParams.                                                              *)
(***************************************************************************)
RECURSIVE CeilLog2From(_, _)
CeilLog2From(result, n) ==
    IF Pow2(result) < n THEN CeilLog2From(result + 1, n) ELSE result

bucket_count_log_of(rsize) == CeilLog2From(0, rsize) + 1

bucket_count_log == bucket_count_log_of(receiver_size)

bucket_count == Pow2(bucket_count_log)

\* psi.h: a bucket slot is a pair (input, index of the hash function)
BUCKET_EMPTY == <<0, 3>>

\* a dummy that does not tell the parties apart
encode_bucket_element_one_dummy(bcl, element, is_receiver) ==
    IF element # BUCKET_EMPTY
    THEN BitOr(ShiftLeft(ShiftRight(element[1], bcl), 2), element[2])
    ELSE 3

encode_bucket_element_of(bcl, element, is_receiver) ==
    IF element # BUCKET_EMPTY
    THEN BitOr(ShiftLeft(ShiftRight(element[1], bcl), 2), element[2])
    ELSE BitOr(3, ShiftLeft(IF is_receiver THEN 1 ELSE 0, 2))

encode_bucket_element(element, is_receiver) ==
    encode_bucket_element_of(bucket_count_log, element, is_receiver)

(***************************************************************************)
(* hashing.h: the keyed hash functions, cuckoo_hash and complete_hash.     *)
(***************************************************************************)
\* the keyed mixer, seeded by seeds[i]
Mixer(seed, y) == ((2 * seed + 1) * (y + 1) + seed * (y \div 2)) % 64

\* permutation-based hashing: the low bucket_count_log bits of x are
\* recoverable from the bucket index and the rest of x
HashLoc(sds, bcl, i, x) ==
    BitXor(x % Pow2(bcl), Mixer(sds[i + 1], ShiftRight(x, bcl)) % Pow2(bcl))

CuckooCeiling(bcl) == 8 * bcl

\* one insertion with its eviction chain: insert cur = (value, hash index)
RECURSIVE CuckooInsert(_, _, _, _, _)
CuckooInsert(sds, bcl, buckets, cur, left) ==
    LET loc == HashLoc(sds, bcl, cur[2], cur[1]) + 1
    IN  IF buckets[loc] = BUCKET_EMPTY
        THEN [ok |-> TRUE, buckets |-> [buckets EXCEPT ![loc] = cur]]
        ELSE IF left = 0
        THEN [ok |-> FALSE, buckets |-> buckets]
        ELSE CuckooInsert(sds, bcl, [buckets EXCEPT ![loc] = cur],
                          <<buckets[loc][1],
                            (buckets[loc][2] + 1) % hash_functions>>,
                          left - 1)

RECURSIVE CuckooFrom(_, _, _, _, _)
CuckooFrom(sds, bcl, ins, n, buckets) ==
    IF n > Len(ins) THEN [ok |-> TRUE, buckets |-> buckets]
    ELSE LET r == CuckooInsert(sds, bcl, buckets, <<ins[n], 0>>,
                               CuckooCeiling(bcl))
         IN  IF r.ok THEN CuckooFrom(sds, bcl, ins, n + 1, r.buckets)
             ELSE r

cuckoo_hash(ins, bcl, sds) ==
    CuckooFrom(sds, bcl, ins, 1, Tabulate(LAMBDA b : BUCKET_EMPTY, Pow2(bcl)))

\* the first free position of bucket loc (0-based), capacity when it is full
RECURSIVE FirstFree(_, _, _, _)
FirstFree(buckets, capacity, loc, j) ==
    IF j = capacity THEN capacity
    ELSE IF buckets[loc * capacity + j + 1] = BUCKET_EMPTY THEN j
    ELSE FirstFree(buckets, capacity, loc, j + 1)

\* input number n (1-based), hash function i
RECURSIVE CompleteFrom(_, _, _, _, _, _, _)
CompleteFrom(sds, bcl, capacity, ins, n, i, buckets) ==
    IF n > Len(ins) THEN [ok |-> TRUE, buckets |-> buckets]
    ELSE IF i = hash_functions
    THEN CompleteFrom(sds, bcl, capacity, ins, n + 1, 0, buckets)
    ELSE LET loc == HashLoc(sds, bcl, i, ins[n])
             j == FirstFree(buckets, capacity, loc, 0)
         IN  IF j = capacity THEN [ok |-> FALSE, buckets |-> buckets]
             ELSE CompleteFrom(sds, bcl, capacity, ins, n, i + 1,
                      [buckets EXCEPT ![loc * capacity + j + 1] = <<ins[n], i>>])

complete_hash(ins, bcl, capacity, sds) ==
    CompleteFrom(sds, bcl, capacity, ins, 1, 0,
                 Tabulate(LAMBDA b : BUCKET_EMPTY, Pow2(bcl) * capacity))

(***************************************************************************)
(* polynomials.cpp: the coefficients, ascending, of prod (x - roots[i]).   *)
(***************************************************************************)
\* coeffs * (x - r)
TimesLinear(coeffs, r, m) ==
    Tabulate(LAMBDA k :
        SubMod(IF k = 1 THEN 0 ELSE coeffs[k - 1],
               IF k = Len(coeffs) + 1 THEN 0 ELSE MulMod(r % m, coeffs[k], m),
               m), Len(coeffs) + 1)

RECURSIVE PolyFrom(_, _, _, _)
PolyFrom(roots, n, coeffs, m) ==
    IF n > Len(roots) THEN coeffs
    ELSE PolyFrom(roots, n + 1, TimesLinear(coeffs, roots[n], m), m)

polynomial_from_roots(roots, m) == PolyFrom(roots, 1, <<1>>, m)

(***************************************************************************)
(* The BFV capability the engine consumes (SEAL): batched plaintexts,      *)
(* encryption and the evaluator, by what a ciphertext decrypts to.         *)
(***************************************************************************)
Max(a, b) == IF a >= b THEN a ELSE b

\* BatchEncoder::encode of the first n values of a buffer: the slots past
\* the plaintext's coefficient count are filled with zero
EncodeSlots(values, n) ==
    Tabulate(LAMBDA k : IF k <= n THEN values[k] ELSE 0, slot_count)

\* Plaintext::is_zero
is_zero(plain) == \A k \in 1..Len(plain) : plain[k] = 0

\* Encryptor::encrypt
encrypt(plain, origin) ==
    [slots |-> plain, from |-> origin, depth |-> 0, size |-> 2]

\* Decryptor::decrypt followed by BatchEncoder::decode
decrypt(ct) == ct.slots

\* Evaluator::multiply
multiply(a, b) ==
    [slots |-> Tabulate(LAMBDA k :
                    MulMod(a.slots[k], b.slots[k], plain_modulus), Len(a.slots)),
     from |-> a.from \cup b.from,
     depth |-> Max(a.depth, b.depth) + 1,
     size |-> a.size + b.size - 1]

\* Evaluator::square
square(a) == multiply(a, a)

\* Evaluator::multiply_plain
multiply_plain(a, plain) ==
    [a EXCEPT !.slots = Tabulate(LAMBDA k :
                            MulMod(a.slots[k], plain[k], plain_modulus),
                            Len(a.slots))]

\* Evaluator::add_inplace
add(a, b) ==
    [slots |-> Tabulate(LAMBDA k :
                    AddMod(a.slots[k], b.slots[k], plain_modulus), Len(a.slots)),
     from |-> a.from \cup b.from,
     depth |-> Max(a.depth, b.depth),
     size |-> Max(a.size, b.size)]

\* Evaluator::relinearize_inplace
relinearize(a) == [a EXCEPT !.size = 2]

(***************************************************************************)
(* PSIParams::generate_seeds and set_seeds.                                *)
(***************************************************************************)
\* random_bits(random, 64): draw number k of the generator in state s
random_bits(s, k) == (s * (k + 1)) % (MaxSeed + 1)

SeedStates == 0..MaxSeed

GenerateSeeds(s) ==
    /\ pc = "constructed"
    /\ seeds' = [i \in 1..hash_functions |-> random_bits(s, i - 1)]
    /\ pc' = "seeded"
    /\ UNCHANGED <<receiver_size, sender_size, input_bits, slot_count,
                   original, inputs, r_buckets, r_ok, r_ciphertexts, sent,
                   s_inputs, s_buckets, s_ok, ladder, s_result, decoded,
                   matches, failed, probe>>

set_seeds_assert(seeds_ext) == Len(seeds_ext) = hash_functions

SetSeeds(seeds_ext) ==
    /\ pc = "constructed"
    /\ IF set_seeds_assert(seeds_ext)
       THEN /\ seeds' = seeds_ext
            /\ pc' = "seeded"
            /\ UNCHANGED failed
       ELSE /\ pc' = "aborted"
            /\ failed' = "set_seeds"
            /\ UNCHANGED seeds
    /\ UNCHANGED <<receiver_size, sender_size, input_bits, slot_count,
                   original, inputs, r_buckets, r_ok, r_ciphertexts, sent,
                   s_inputs, s_buckets, s_ok, ladder, s_result, decoded,
                   matches, probe>>

(***************************************************************************)
(* PSIReceiver::encrypt_inputs.                                            *)
(***************************************************************************)
\* the count rounded down
ciphertext_count_floor == bucket_count \div slot_count

ciphertext_count == (bucket_count + (slot_count - 1)) \div slot_count

\* the number of buckets packed into block i (0-based)
buckets_here(i) ==
    IF i < ciphertext_count - 1 THEN slot_count
    ELSE bucket_count % slot_count

\* buckets_grouped of block i, encoded
ReceiverPlain(buckets, i) ==
    EncodeSlots(Tabulate(LAMBDA j :
                    encode_bucket_element(buckets[slot_count * i + j], TRUE),
                    buckets_here(i)),
                buckets_here(i))

\* the vector rewritten without the resize
rewritten_inputs_unresized(buckets) ==
    [i \in 1..receiver_size |-> buckets[i][1]]

\* the caller's vector as encrypt_inputs leaves it
rewritten_inputs(buckets) == [i \in 1..bucket_count |-> buckets[i][1]]

encrypt_inputs_size_assert(ins) == Len(ins) = receiver_size

encrypt_inputs_hash_assert(res) == res

EncryptInputs(ins) ==
    /\ pc = "seeded"
    /\ original' = ins
    /\ IF ~encrypt_inputs_size_assert(ins)
       THEN /\ pc' = "aborted"
            /\ failed' = "encrypt_inputs"
            /\ UNCHANGED <<inputs, r_buckets, r_ok, r_ciphertexts>>
       ELSE \E h \in {cuckoo_hash(ins, bucket_count_log, seeds)} :
                /\ r_ok' = h.ok
                /\ r_buckets' = h.buckets
                /\ IF ~encrypt_inputs_hash_assert(h.ok)
                   THEN /\ pc' = "aborted"
                        /\ failed' = "encrypt_inputs"
                        /\ UNCHANGED <<inputs, r_ciphertexts>>
                   ELSE /\ r_ciphertexts' =
                              Tabulate(LAMBDA i :
                                  encrypt(ReceiverPlain(h.buckets, i - 1), {i - 1}),
                                  ciphertext_count)
                        /\ inputs' = rewritten_inputs(h.buckets)
                        /\ pc' = "encrypted"
                        /\ UNCHANGED failed
    /\ UNCHANGED <<receiver_size, sender_size, input_bits, slot_count, seeds,
                   sent, s_inputs, s_buckets, s_ok, ladder, s_result, decoded,
                   matches, probe>>

(***************************************************************************)
(* PSISender::compute_matches.                                             *)
(***************************************************************************)
\* this_bucket of bucket i (0-based): its encoded slots
this_bucket(buckets, i) ==
    Tabulate(LAMBDA j :
        encode_bucket_element(buckets[i * sender_bucket_capacity + j], FALSE),
        sender_bucket_capacity)

\* f_coeffs: for each bucket, the polynomial whose roots are its slots
f_coeffs_of(buckets) ==
    Tabulate(LAMBDA i :
        polynomial_from_roots(this_bucket(buckets, i - 1), plain_modulus),
        bucket_count)

\* the number of polynomials packed into block i (0-based)
coeffs_here(i) ==
    IF i < ciphertext_count - 1 THEN slot_count
    ELSE bucket_count % slot_count

\* f_coeffs_enc[i][j]: coeffs_grouped is resized once per block and encoded in
\* place once per degree, so from degree 1 on the entries past coeffs_here
\* are what the previous encoding left in the buffer: zero after an all-zero
\* plaintext, the value stale otherwise
f_coeffs_enc_of(f_coeffs, i, j, stale) ==
    Tabulate(LAMBDA k :
        IF k <= coeffs_here(i) THEN f_coeffs[slot_count * i + k][j + 1]
        ELSE IF j = 0 \/ coeffs_here(i) = 0 THEN 0
        ELSE stale, slot_count)

\* the condition of the ladder's if: == binds tighter than &
ladder_squares(j) == BitAnd(j, IF 2 = 0 THEN 1 ELSE 0) # 0

ladder_op(j) == IF ladder_squares(j) THEN "square" ELSE "multiply"

\* powers[1..j] of the Receiver's ciphertext c, as a sequence
RECURSIVE powers_of(_, _)
powers_of(c, j) ==
    IF j = 1 THEN <<c>>
    ELSE LET prev == powers_of(c, j - 1)
         IN  Append(prev,
                    relinearize(IF ladder_squares(j)
                                THEN square(prev[j \div 2])
                                ELSE multiply(prev[j - 1], prev[1])))

\* result[i] after the terms of degree 1..j were added
RECURSIVE accumulate(_, _, _, _, _, _)
accumulate(acc, powers, f_coeffs, i, j, stale) ==
    IF j > sender_bucket_capacity THEN acc
    ELSE LET plain == f_coeffs_enc_of(f_coeffs, i, j, stale)
         IN  accumulate(IF ~is_zero(plain)
                        THEN add(acc, relinearize(multiply_plain(powers[j], plain)))
                        ELSE acc,
                        powers, f_coeffs, i, j + 1, stale)

\* random_nonzero_integer(random, plain_modulus): draw number j of the
\* generator in state r
random_nonzero_integer(r, j) == 1 + ((r * (j + 1) + j) % (plain_modulus - 1))

\* the mask of block i (0-based): slot_count fresh draws
random_mask(r, i) ==
    Tabulate(LAMBDA j : random_nonzero_integer(r, slot_count * i + j - 1),
             slot_count)

\* result[i] (0-based) before it is masked: the constant terms and the
\* terms of degree 1..capacity added to them
sum_of(f_coeffs, powers, i, stale) ==
    accumulate(encrypt(f_coeffs_enc_of(f_coeffs, i, 0, stale), {}),
               powers, f_coeffs, i, 1, stale)

\* result[i] (0-based) as compute_matches returns it
result_of(sum, i, r) == relinearize(multiply_plain(sum, random_mask(r, i)))

compute_matches_size_assert(ins) == Len(ins) = sender_size

\* the assertion compiled out
compute_matches_hash_unchecked(res) == TRUE

compute_matches_hash_assert(res) == res

compute_matches_count_assert(receiver_inputs) ==
    ciphertext_count = Len(receiver_inputs)

\* what the transport hands to the Sender: the first n ciphertexts sent,
\* the last one repeated when n exceeds their number
Delivered(n) ==
    Tabulate(LAMBDA i :
        r_ciphertexts[IF i <= Len(r_ciphertexts) THEN i ELSE Len(r_ciphertexts)],
        n)

DeliveredVectors ==
    {Delivered(n) : n \in 0..(ciphertext_count + MaxExtraCiphertexts)}

\* what an in-place encoding may leave past coeffs_here; there is no such
\* entry unless the last block is partly used
StaleValues == IF 0 < bucket_count % slot_count THEN {0, 1} ELSE {0}

MaskStates == {0, 1}

ComputeMatches(ins) ==
    /\ pc = "encrypted"
    /\ s_inputs' = ins
    /\ IF ~compute_matches_size_assert(ins)
       THEN /\ \E receiver_inputs \in DeliveredVectors : sent' = receiver_inputs
            /\ pc' = "aborted"
            /\ failed' = "compute_matches"
            /\ UNCHANGED <<s_buckets, s_ok, ladder, s_result>>
       ELSE \E h \in {complete_hash(ins, bucket_count_log,
                                   sender_bucket_capacity, seeds)} :
                /\ s_ok' = h.ok
                /\ s_buckets' = h.buckets
                /\ IF ~compute_matches_hash_assert(h.ok)
                   THEN /\ \E receiver_inputs \in DeliveredVectors :
                               sent' = receiver_inputs
                        /\ pc' = "aborted"
                        /\ failed' = "compute_matches"
                        /\ UNCHANGED <<ladder, s_result>>
                   ELSE \E f_coeffs \in {f_coeffs_of(h.buckets)} :
                        \E receiver_inputs \in DeliveredVectors :
                            /\ sent' = receiver_inputs
                            /\ IF ~compute_matches_count_assert(receiver_inputs)
                               THEN /\ pc' = "aborted"
                                    /\ failed' = "compute_matches"
                                    /\ UNCHANGED <<ladder, s_result>>
                               ELSE \E powers \in {Tabulate(LAMBDA i :
                                        powers_of(receiver_inputs[i],
                                                  sender_bucket_capacity),
                                        Len(receiver_inputs))} :
                                    \E stale \in StaleValues :
                                    \E sums \in {Tabulate(LAMBDA i :
                                        sum_of(f_coeffs, powers[i], i - 1, stale),
                                        Len(receiver_inputs))} :
                                    \E r \in MaskStates :
                                    /\ s_result' =
                                          Tabulate(LAMBDA i :
                                              result_of(sums[i], i - 1, r),
                                              Len(receiver_inputs))
                                    /\ ladder' =
                                          [j \in 1..sender_bucket_capacity |->
                                              IF j = 1 THEN "input"
                                              ELSE ladder_op(j)]
                                    /\ pc' = "computed"
                                    /\ UNCHANGED failed
    /\ UNCHANGED <<receiver_size, sender_size, input_bits, slot_count, seeds,
                   original, inputs, r_buckets, r_ok, r_ciphertexts, decoded,
                   matches, probe>>

(***************************************************************************)
(* PSIReceiver::decrypt_matches.                                           *)
(***************************************************************************)
\* the inner loop's condition without the bound on the bucket index
slot_in_range_unbounded(i, j) == j < slot_count

\* the inner loop's condition for slot j of ciphertext i (both 0-based)
slot_in_range(i, j) == (j < slot_count) /\ (slot_count * i + j < bucket_count)

\* the indices pushed from slot j on of ciphertext i, in loop order
RECURSIVE matches_from(_, _, _)
matches_from(decrypted, i, j) ==
    IF ~slot_in_range(i, j) THEN <<>>
    ELSE (IF decrypted[j + 1] = 0 THEN <<slot_count * i + j>> ELSE <<>>)
         \o matches_from(decrypted, i, j + 1)

RECURSIVE decrypt_from(_, _)
decrypt_from(encrypted_matches, i) ==
    IF i >= Len(encrypted_matches) THEN <<>>
    ELSE matches_from(decrypt(encrypted_matches[i + 1]), i, 0)
         \o decrypt_from(encrypted_matches, i + 1)

decrypt_matches(encrypted_matches) == decrypt_from(encrypted_matches, 0)

DecryptMatches ==
    /\ pc = "computed"
    /\ decoded' = [i \in 1..Len(s_result) |-> decrypt(s_result[i])]
    /\ matches' = decrypt_matches(s_result)
    /\ pc' = "decrypted"
    /\ UNCHANGED <<receiver_size, sender_size, input_bits, slot_count, seeds,
                   original, inputs, r_buckets, r_ok, r_ciphertexts, sent,
                   s_inputs, s_buckets, s_ok, ladder, s_result, failed, probe>>

(***************************************************************************)
(* One round of the protocol.                                              *)
(***************************************************************************)
InputDomain == 0..MaxInput

\* the least width that holds every input of the domain
ModelInputBits == CeilLog2From(0, MaxInput + 1)

\* the batching widths: half the bucket count (two blocks), the bucket
\* count (one block) and twice the bucket count (one block, partly used)
SlotCountsFor(rsize) ==
    {c \in {Pow2(bucket_count_log_of(rsize) - 1), Pow2(bucket_count_log_of(rsize)),
            Pow2(bucket_count_log_of(rsize) + 1)} : c >= 2}

\* a Sender with one element, and one with all but one of the domain's
SenderSizes == {1, MaxInput}

\* the vectors a caller may pass as a party's set of n elements: the
\* elements in ascending order
InputVectors(n) ==
    {SortedSeq(S) : S \in {T \in SUBSET InputDomain : Cardinality(T) = n}}

\* vectors of another length than n
WrongSizeVectors(n) == {SortedSeq(0..(n - 2)), SortedSeq(0..n)}

ReceiverVectors == InputVectors(receiver_size) \cup WrongSizeVectors(receiver_size)

SenderVectors == InputVectors(sender_size) \cup WrongSizeVectors(sender_size)

SeedVectors ==
    {[i \in 1..n |-> random_bits(s, i - 1)] :
        s \in SeedStates, n \in {hash_functions - 1, hash_functions}}

Init ==
    /\ receiver_size \in 1..MaxReceiverSize
    /\ sender_size \in SenderSizes
    /\ input_bits = ModelInputBits
    /\ slot_count \in SlotCountsFor(receiver_size)
    /\ seeds = <<>>
    /\ pc = "constructed"
    /\ original = <<>>
    /\ inputs = <<>>
    /\ r_buckets = <<>>
    /\ r_ok = FALSE
    /\ r_ciphertexts = <<>>
    /\ sent = <<>>
    /\ s_inputs = <<>>
    /\ s_buckets = <<>>
    /\ s_ok = FALSE
    /\ ladder = <<>>
    /\ s_result = <<>>
    /\ decoded = <<>>
    /\ matches = <<>>
    /\ failed = ""
    /\ probe = <<>>

GenerateSeedsStep ==
    /\ pc = "constructed"
    /\ \E s \in SeedStates : GenerateSeeds(s)

SetSeedsStep ==
    /\ pc = "constructed"
    /\ \E seeds_ext \in SeedVectors : SetSeeds(seeds_ext)

EncryptInputsStep ==
    /\ pc = "seeded"
    /\ \E ins \in ReceiverVectors : EncryptInputs(ins)

ComputeMatchesStep ==
    /\ pc = "encrypted"
    /\ \E ins \in SenderVectors : ComputeMatches(ins)

Next ==
    \/ GenerateSeedsStep
    \/ SetSeedsStep
    \/ EncryptInputsStep
    \/ ComputeMatchesStep
    \/ DecryptMatches

Spec == Init /\ [][Next]_vars

(***************************************************************************)
(* PSIParams alone: construction with any input_bits, then calls of        *)
(* encode_bucket_element.                                                  *)
(***************************************************************************)
\* inputs of [0, 2^bits): the least, the greatest and those around the
\* bit that the bucket index takes over
SampleInputs(bits) ==
    {v \in {0, 1, Pow2(bucket_count_log) - 1, Pow2(bucket_count_log),
            Pow2(bits - 1), Pow2(bits) - 1} : v < Pow2(bits)}

SampleSlots(bits) ==
    {BUCKET_EMPTY} \cup (SampleInputs(bits) \X (0..(hash_functions - 1)))

EncodeBucketElements ==
    /\ pc = "constructed"
    /\ probe = <<>>
    /\ \E a \in SampleSlots(input_bits), b \in SampleSlots(input_bits),
          a_is_receiver \in BOOLEAN, b_is_receiver \in BOOLEAN :
            probe' = [a |-> a, a_is_receiver |-> a_is_receiver,
                      a_encoded |-> encode_bucket_element(a, a_is_receiver),
                      b |-> b, b_is_receiver |-> b_is_receiver,
                      b_encoded |-> encode_bucket_element(b, b_is_receiver)]
    /\ UNCHANGED <<receiver_size, sender_size, input_bits, slot_count, seeds,
                   pc, original, inputs, r_buckets, r_ok, r_ciphertexts, sent,
                   s_inputs, s_buckets, s_ok, ladder, s_result, decoded,
                   matches, failed>>

InitParams ==
    /\ receiver_size \in 1..MaxReceiverSize
    /\ sender_size = 1
    /\ input_bits \in 1..MaxInputBits
    /\ slot_count = Pow2(bucket_count_log_of(receiver_size))
    /\ seeds = <<>>
    /\ pc = "constructed"
    /\ original = <<>>
    /\ inputs = <<>>
    /\ r_buckets = <<>>
    /\ r_ok = FALSE
    /\ r_ciphertexts = <<>>
    /\ sent = <<>>
    /\ s_inputs = <<>>
    /\ s_buckets = <<>>
    /\ s_ok = FALSE
    /\ ladder = <<>>
    /\ s_result = <<>>
    /\ decoded = <<>>
    /\ matches = <<>>
    /\ failed = ""
    /\ probe = <<>>

NextParams == EncodeBucketElements

SpecParams == InitParams /\ [][NextParams]_vars

(***************************************************************************)
(* decrypt_matches alone, on any vector of ciphertexts.                    *)
(***************************************************************************)
\* plaintexts by where their zero slots are: everywhere, nowhere, at the
\* even slots, at the odd slots, at the first slot, at the last slot
SlotPatterns ==
    {[j \in 1..slot_count |-> IF j \in Z THEN 0 ELSE j] :
        Z \in {1..slot_count, {}, {j \in 1..slot_count : j % 2 = 0},
               {j \in 1..slot_count : j % 2 = 1}, {1}, {slot_count}}}

RECURSIVE SeqsUpTo(_, _)
SeqsUpTo(S, n) ==
    IF n = 0 THEN {<<>>}
    ELSE LET shorter == SeqsUpTo(S, n - 1)
         IN  shorter \cup {Append(q, x) : q \in {t \in shorter : Len(t) = n - 1},
                                          x \in S}

InitDecrypt ==
    /\ receiver_size \in 1..MaxReceiverSize
    /\ sender_size = 1
    /\ input_bits = ModelInputBits
    /\ slot_count \in SlotCountsFor(receiver_size)
    /\ seeds = <<>>
    /\ pc = "computed"
    /\ original = <<>>
    /\ inputs = <<>>
    /\ r_buckets = <<>>
    /\ r_ok = FALSE
    /\ r_ciphertexts = <<>>
    /\ sent = <<>>
    /\ s_inputs = <<>>
    /\ s_buckets = <<>>
    /\ s_ok = FALSE
    /\ ladder = <<>>
    /\ s_result \in SeqsUpTo({encrypt(plain, {}) : plain \in SlotPatterns},
                             MaxCiphertexts)
    /\ decoded = <<>>
    /\ matches = <<>>
    /\ failed = ""
    /\ probe = <<>>

NextDecrypt == DecryptMatches

SpecDecrypt == InitDecrypt /\ [][NextDecrypt]_vars

(***************************************************************************)
(* Notions the properties are stated in.                                   *)
(***************************************************************************)
\* ceil(a / b): the least n with n * b >= a
CeilDiv(a, b) == CHOOSE n \in 0..a : n * b >= a /\ (n = 0 \/ (n - 1) * b < a)

\* slot (b mod slot_count) of element (b div slot_count) of a vector of
\* ciphertexts, b a bucket index (0-based)
SlotOf(cts, b) == decrypt(cts[(b \div slot_count) + 1])[(b % slot_count) + 1]

\* the Receiver's encoded value of bucket b equals the encoded value of one
\* of the slots of the Sender's bucket b
BucketMatches(b) ==
    \E j \in 1..sender_bucket_capacity :
        encode_bucket_element(r_buckets[b + 1], TRUE)
            = encode_bucket_element(s_buckets[b * sender_bucket_capacity + j], FALSE)

Buckets == 0..(bucket_count - 1)

StrictlyIncreasing(s) == \A i \in 1..(Len(s) - 1) : s[i] < s[i + 1]

\* the last block is partly used: bucket_count is no multiple of slot_count
LastBlockPartlyUsed == bucket_count % slot_count # 0

(***************************************************************************)
(* C1.  After a round in which every step succeeded, the values the        *)
(* rewritten inputs vector holds at the decrypted match indices are        *)
(* exactly the elements common to the Receiver's and the Sender's set, and *)
(* no reported index is an empty bucket.                                   *)
(***************************************************************************)
C1_Correctness ==
    pc = "decrypted" =>
        /\ {inputs[i + 1] : i \in Range(matches)}
               = Range(original) \cap Range(s_inputs)
        /\ \A i \in Range(matches) : r_buckets[i + 1] # BUCKET_EMPTY

\* the same, for the rounds whose last block is partly used
C1_CorrectnessPartlyUsed ==
    (pc = "decrypted" /\ LastBlockPartlyUsed) =>
        /\ {inputs[i + 1] : i \in Range(matches)}
               = Range(original) \cap Range(s_inputs)
        /\ \A i \in Range(matches) : r_buckets[i + 1] # BUCKET_EMPTY

(***************************************************************************)
(* C2.  In what compute_matches returns, the slot of every bucket b        *)
(* decrypts to 0 when the Receiver's encoded value of b is among the       *)
(* encoded slots of the Sender's bucket b, and to a nonzero element of     *)
(* Z/plain_modulus otherwise.                                              *)
(***************************************************************************)
C2_MatchPredicate ==
    pc = "computed" =>
        \A b \in Buckets :
            /\ SlotOf(s_result, b) \in 0..(plain_modulus - 1)
            /\ (SlotOf(s_result, b) = 0) <=> BucketMatches(b)

\* the same, for the rounds whose last block is partly used
C2_MatchPredicatePartlyUsed ==
    (pc = "computed" /\ LastBlockPartlyUsed) =>
        \A b \in Buckets :
            /\ SlotOf(s_result, b) \in 0..(plain_modulus - 1)
            /\ (SlotOf(s_result, b) = 0) <=> BucketMatches(b)

C6_AsStated ==
    pc = "encrypted" =>
        /\ Len(inputs) = bucket_count
        /\ \A i \in 1..bucket_count :
               IF r_buckets[i] # BUCKET_EMPTY
               THEN inputs[i] = r_buckets[i][1] /\ inputs[i] \in Range(original)
               ELSE inputs[i] = 0
        /\ \A x \in Range(original) :
               Cardinality({i \in 1..Len(inputs) : inputs[i] = x}) = 1

(***************************************************************************)
(* C6 amended: after encrypt_inputs the vector has bucket_count entries, a *)
(* non-empty bucket's entry is the element placed there, an EMPTY bucket's *)
(* entry is 0, every original element is held by exactly one non-empty     *)
(* bucket, and every original element other than 0 appears at exactly one  *)
(* index.                                                                  *)
(***************************************************************************)
C6_SideEffect ==
    pc = "encrypted" =>
        /\ Len(inputs) = bucket_count
        /\ \A i \in 1..bucket_count :
               IF r_buckets[i] # BUCKET_EMPTY
               THEN inputs[i] = r_buckets[i][1] /\ inputs[i] \in Range(original)
               ELSE inputs[i] = 0
        /\ \A x \in Range(original) :
               /\ Cardinality({i \in 1..Len(inputs) :
                      r_buckets[i] # BUCKET_EMPTY /\ inputs[i] = x}) = 1
               /\ x # 0 => Cardinality({i \in 1..Len(inputs) : inputs[i] = x}) = 1

C6_Witness ==
    /\ pc = "encrypted"
    /\ 0 \in Range(original)
    /\ Len(original) = 2
    /\ \E i \in 1..Len(inputs) : r_buckets[i] # BUCKET_EMPTY /\ r_buckets[i][2] # 0

(***************************************************************************)
(* C8.  A failure leaves no result: a call whose assertion fails ends in   *)
(* the aborted state, from which nothing more happens, with no ciphertext  *)
(* vector returned by the failing call and no match list; ciphertexts      *)
(* exist only after calls with vectors of the declared sizes, three seeds  *)
(* and successful hashing, and a match list only after a whole such round. *)
(***************************************************************************)
C8_NoPartialResult ==
    /\ failed # "" <=> pc = "aborted"
    /\ pc = "aborted" =>
           /\ ~ENABLED Next
           /\ s_result = <<>> /\ decoded = <<>> /\ matches = <<>>
           /\ failed \in {"set_seeds", "encrypt_inputs"} => r_ciphertexts = <<>>
           /\ failed = "set_seeds" => seeds = <<>>
    /\ pc \in {"seeded", "encrypted", "computed", "decrypted"} =>
           Len(seeds) = hash_functions
    /\ pc \in {"encrypted", "computed", "decrypted"} =>
           Len(original) = receiver_size /\ r_ok
    /\ pc \in {"computed", "decrypted"} =>
           /\ Len(s_inputs) = sender_size /\ s_ok
           /\ Len(sent) = CeilDiv(bucket_count, slot_count)
    /\ pc # "decrypted" => matches = <<>> /\ decoded = <<>>
    /\ pc \notin {"computed", "decrypted"} => s_result = <<>>
    /\ pc \in {"constructed", "seeded"} => r_ciphertexts = <<>>

C8_Witness ==
    /\ pc = "aborted"
    /\ failed = "compute_matches"
    /\ Len(s_inputs) = sender_size
    /\ Len(sent) = ciphertext_count
    /\ ~s_ok

\* the other failures
C8_WitnessCuckoo ==
    pc = "aborted" /\ failed = "encrypt_inputs"
        /\ Len(original) = receiver_size /\ ~r_ok

C8_WitnessCount ==
    pc = "aborted" /\ failed = "compute_matches"
        /\ Len(s_inputs) = sender_size /\ s_ok /\ Len(sent) # ciphertext_count

(***************************************************************************)
(* C9.  Every bucket b is packed into slot (b mod slot_count) of block     *)
(* (b div slot_count): the Receiver's ciphertexts hold the encoded value   *)
(* of every bucket, and the Sender's plaintexts hold every coefficient of  *)
(* every bucket's polynomial.                                              *)
(***************************************************************************)
C9_LastBlockPacking ==
    /\ pc = "encrypted" =>
           \A b \in Buckets :
               SlotOf(r_ciphertexts, b) = encode_bucket_element(r_buckets[b + 1], TRUE)
    /\ pc = "computed" =>
           LET f_coeffs == f_coeffs_of(s_buckets)
           IN  \A b \in Buckets : \A j \in 0..sender_bucket_capacity :
                   f_coeffs_enc_of(f_coeffs, b \div slot_count, j, 0)[(b % slot_count) + 1]
                       = f_coeffs[b + 1][j + 1]

(***************************************************************************)
(* C10.  powers[j] is computed by squaring powers[j / 2] when j is even    *)
(* and by multiplying powers[j - 1] by powers[1] when j is odd, so that no *)
(* returned ciphertext has a multiplicative depth above that of the        *)
(* square-and-multiply ladder.                                             *)
(***************************************************************************)
RECURSIVE LadderDepth(_)
LadderDepth(j) ==
    IF j = 1 THEN 0
    ELSE IF j % 2 = 0 THEN LadderDepth(j \div 2) + 1
    ELSE LadderDepth(j - 1) + 1

C10_PowerLadder ==
    pc = "computed" =>
        /\ \A j \in 2..sender_bucket_capacity :
               ladder[j] = (IF j % 2 = 0 THEN "square" ELSE "multiply")
        /\ \A i \in 1..Len(s_result) :
               s_result[i].depth
                   <= LadderDepth(CHOOSE j \in 1..sender_bucket_capacity :
                          \A k \in 1..sender_bucket_capacity :
                              LadderDepth(k) <= LadderDepth(j))

(***************************************************************************)
(* C3.  encode_bucket_element gives ((v >> bucket_count_log) << 2) | h for *)
(* a non-empty slot (v, h), 3 for the Sender's EMPTY and 7 for the         *)
(* Receiver's; an EMPTY slot of one party is never encoded as any slot of  *)
(* the other party, and a non-empty slot holding 0 is never encoded as an  *)
(* EMPTY slot.                                                             *)
(***************************************************************************)
EncodingAsDocumented(slot, is_receiver, encoded) ==
    IF slot = BUCKET_EMPTY
    THEN encoded = (IF is_receiver THEN 7 ELSE 3)
    ELSE encoded = 4 * (slot[1] \div Pow2(bucket_count_log)) + slot[2]

C3_Encoding ==
    probe # <<>> =>
        /\ EncodingAsDocumented(probe.a, probe.a_is_receiver, probe.a_encoded)
        /\ EncodingAsDocumented(probe.b, probe.b_is_receiver, probe.b_encoded)
        /\ (probe.a = BUCKET_EMPTY /\ probe.a_is_receiver # probe.b_is_receiver)
               => probe.a_encoded # probe.b_encoded
        /\ (probe.a = BUCKET_EMPTY /\ probe.b # BUCKET_EMPTY /\ probe.b[1] = 0)
               => probe.a_encoded # probe.b_encoded

C3_Witness ==
    /\ probe # <<>>
    /\ probe.a = BUCKET_EMPTY /\ probe.a_is_receiver
    /\ probe.b = <<0, 0>> /\ ~probe.b_is_receiver
    /\ probe.a_encoded = 7 /\ probe.b_encoded = 0

(***************************************************************************)
(* C4.  For every constructed PSIParams the encoded slot of every input of *)
(* [0, 2^input_bits) with every hash index is below plain_modulus (what    *)
(* validating input_bits - bucket_count_log + 2 <= log2(plain_modulus) at  *)
(* construction would ensure).                                             *)
(***************************************************************************)
C4_EncodedBelowModulus ==
    probe # <<>> =>
        /\ probe.a_encoded < plain_modulus
        /\ probe.b_encoded < plain_modulus

\* the encoded slots are below plain_modulus when the bound holds
C4_BelowModulusUnderBound ==
    (probe # <<>> /\ input_bits - bucket_count_log + 2 <= plain_modulus_log) =>
        /\ probe.a_encoded < plain_modulus
        /\ probe.b_encoded < plain_modulus

(***************************************************************************)
(* C7.  The indices decrypt_matches returns are strictly increasing and    *)
(* below bucket_count, and slot_count * i + j is among them exactly when   *)
(* slot j of ciphertext i decodes to 0 and slot_count * i + j is below     *)
(* bucket_count.                                                           *)
(***************************************************************************)
C7_DecryptedIndices ==
    pc = "decrypted" =>
        /\ StrictlyIncreasing(matches)
        /\ \A m \in Range(matches) : m \in Buckets
        /\ Len(decoded) = Len(s_result)
        /\ Range(matches) =
               {slot_count * i + j : i \in 0..(Len(s_result) - 1),
                                     j \in 0..(slot_count - 1)}
               \cap {m \in Buckets :
                        m \div slot_count < Len(decoded)
                        => decoded[(m \div slot_count) + 1][(m % slot_count) + 1] = 0}

C7_Witness ==
    /\ pc = "decrypted"
    /\ Len(matches) >= 2
    /\ \E i \in 1..Len(decoded) : \E j \in 1..slot_count :
           decoded[i][j] = 0 /\ slot_count * (i - 1) + (j - 1) >= bucket_count
    /\ \E i \in 1..Len(decoded) : \E j \in 1..slot_count :
           decoded[i][j] # 0 /\ slot_count * (i - 1) + (j - 1) < bucket_count

====
